---- MODULE Spec2Model ----
(***************************************************************************)
(* Capacity compliance and vacancy projection engine of the SF FCC vacancy *)
(* registry: age classification (utils/ageGroups.ts), the infant-ratio     *)
(* rule engine and the compliance evaluator (utils/compliance.ts) and the  *)
(* projection engine (utils/projections.ts).                               *)
(*                                                                         *)
(* Dates.  A date string "YYYY-MM-DD" is a record [y, m, d] with m in      *)
(* 1..12.  A JavaScript Date is modelled by its local wall-clock fields    *)
(* [y, m, d, h] with m in 0..11 (getMonth) and h the local hour.  The host *)
(* time zone is part of the environment (tzOffset, hours east of UTC);     *)
(* daylight saving is not modelled.                                        *)
(***************************************************************************)
EXTENDS Integers, Sequences, FiniteSets

VARIABLES
    tzOffset,           \* host time zone, hours east of UTC
    today,              \* the clock: what new Date() returns (local fields)
    returned,           \* names of the functions that have returned a result
    programType,        \* CapacityConfig.programType / rule engine argument
    totalCapacity,      \* CapacityConfig.totalCapacity / rule engine argument
    currentInfants,     \* argument of getAvailableInfantSpots
    currentNonInfants,  \* argument of getAvailableInfantSpots
    maxInfants,         \* result of getMaxInfantsAllowed(programType, infants + nonInfants)
    infantSpots,        \* result of getAvailableInfantSpots
    dateOfBirth,        \* argument of getAgeInMonths / getAgeGroup
    ageMonths,          \* result of getAgeInMonths(dateOfBirth, today)
    ageGroup,           \* result of getAgeGroup(dateOfBirth, today)
    children,           \* the roster: sequence of Child records
    status,             \* result of calculateComplianceStatus
    projectionMonths,   \* argument of calculateProjectedOpenings
    openings,           \* result of calculateProjectedOpenings
    kindergartenStart,  \* result of getKindergartenStartDate(dateOfBirth)
    proposal,           \* what handleAutoFill passes to onAutoFill
    programs,           \* usePrograms: the stored Program[]
    activeProgramId,    \* usePrograms: the stored id of the active program
    uuids,              \* number of ids crypto.randomUUID has handed out
    formData,           \* VacancyForm: the four spot counts of the form state
    complianceWarning   \* VacancyForm: type of the compliance message, or Null

vars == <<tzOffset, today, returned, programType, totalCapacity,
          currentInfants, currentNonInfants, maxInfants, infantSpots,
          dateOfBirth, ageMonths, ageGroup, children, status,
          projectionMonths, openings, kindergartenStart, proposal,
          programs, activeProgramId, uuids, formData, complianceWarning>>

ruleVars == <<programType, totalCapacity, currentInfants,
              currentNonInfants, maxInfants, infantSpots>>
ageVars == <<dateOfBirth, ageMonths, ageGroup, kindergartenStart>>
rosterVars == <<children, status, projectionMonths, openings, proposal>>
programVars == <<programs, activeProgramId, uuids>>
formVars == <<formData, complianceWarning>>

----------------------------------------------------------------------------
(* Bounds of the model *)

\* largest head count the rule engine is asked about
MaxHeadCount == 15
\* largest number of infants already enrolled in a rule engine query
MaxCurrentInfants == 6
\* last calendar year the clock of the age classifier runs through
LastClockYear == 2026

ProgramTypes == {"small_family", "large_family"}

\* America/Los_Angeles (standard time), UTC and a zone east of UTC
TimeZones == {-8, 0, 8}

Null == "null"

----------------------------------------------------------------------------
(* The JavaScript Date behaviour the utilities rely on *)

IsLeapYear(y) == (y % 4 = 0 /\ y % 100 # 0) \/ y % 400 = 0

\* m is a getMonth() value, 0..11
DaysInMonth(y, m) ==
    IF m \in {0, 2, 4, 6, 7, 9, 11} THEN 31
    ELSE IF m \in {3, 5, 8, 10} THEN 30
    ELSE IF IsLeapYear(y) THEN 29 ELSE 28

PrevDay(D) ==
    IF D.d > 1 THEN [D EXCEPT !.d = @ - 1]
    ELSE IF D.m > 0 THEN [D EXCEPT !.m = @ - 1, !.d = DaysInMonth(D.y, D.m - 1)]
    ELSE [D EXCEPT !.y = @ - 1, !.m = 11, !.d = 31]

NextDay(D) ==
    IF D.d < DaysInMonth(D.y, D.m) THEN [D EXCEPT !.d = @ + 1]
    ELSE IF D.m < 11 THEN [D EXCEPT !.m = @ + 1, !.d = 1]
    ELSE [D EXCEPT !.y = @ + 1, !.m = 0, !.d = 1]

\* new Date("YYYY-MM-DD"): a date-only string is UTC midnight; the getters
\* (getFullYear, getMonth, getDate) read it in the host time zone.
\* a string that is no date ('', 'not-a-date')
Unparsable == [y |-> 0, m |-> 0, d |-> 0]

\* NaN: what the getters of an Invalid Date return and what arithmetic on
\* it yields.  Every comparison with NaN is false; the model's comparisons
\* with a possibly-NaN number are lower bounds or conjoined with one, which
\* a number below every age and date makes false.
NaN == -1000000
InvalidDate == [y |-> NaN, m |-> NaN, d |-> NaN, h |-> NaN]

NewDate(str) ==
    LET utc == [y |-> str.y, m |-> str.m - 1, d |-> str.d, h |-> 0]
    IN  IF str = Unparsable THEN InvalidDate
        ELSE IF tzOffset < 0
        THEN [PrevDay(utc) EXCEPT !.h = 24 + tzOffset]
        ELSE [utc EXCEPT !.h = tzOffset]

\* Date.getTime(), up to an order-preserving rescaling (hours on a calendar
\* of 31-day months): only differences' signs and comparisons are used.
getTime(D) == ((D.y * 12 + D.m) * 31 + (D.d - 1)) * 24 + D.h

\* date-fns format(date, 'yyyy-MM-dd'): the local calendar date as a string
format(D) == [y |-> D.y, m |-> D.m + 1, d |-> D.d]

\* date-fns addMonths(date, amount): same local day of month and time, the day
\* clamped to the last day of the target month
addMonths(D, amount) ==
    LET total == D.y * 12 + D.m + amount
        ty == total \div 12
        tm == total % 12
        last == DaysInMonth(ty, tm)
    IN  [y |-> ty, m |-> tm, d |-> IF D.d >= last THEN last ELSE D.d, h |-> D.h]

----------------------------------------------------------------------------
(* utils/compliance.ts: the rule engine *)

getMaxInfantsAllowed_strict(pType, total) ==
    IF pType = "small_family"
    THEN IF total < 4 THEN 4 ELSE IF total < 6 THEN 3 ELSE 2
    ELSE IF total < 12 THEN 4 ELSE 3

\* the table with no infant allowed in an empty program
getMaxInfantsAllowed_emptyProgram(pType, total) ==
    IF total <= 0 THEN 0
    ELSE IF pType = "small_family"
    THEN IF total <= 4 THEN 4 ELSE IF total <= 6 THEN 3 ELSE 2
    ELSE IF total <= 12 THEN 4 ELSE 3

getMaxInfantsAllowed(pType, total) ==
    IF pType = "small_family"
    THEN IF total <= 4 THEN 4
         ELSE IF total <= 6 THEN 3
         ELSE 2
    ELSE IF total <= 12 THEN 4
         ELSE 3

\* the for loop of getAvailableInfantSpots from newInfants on, maxNewInfants
\* being the value of the loop's accumulator
RECURSIVE InfantSpotsLoop(_, _, _, _, _, _)
InfantSpotsLoop(pType, totalSpotsLeft, infants, total, newInfants, maxNewInfants) ==
    IF newInfants > totalSpotsLeft THEN maxNewInfants
    ELSE IF infants + newInfants <= getMaxInfantsAllowed(pType, total + newInfants)
         THEN InfantSpotsLoop(pType, totalSpotsLeft, infants, total,
                              newInfants + 1, newInfants)
         ELSE maxNewInfants

\* the ceiling taken at the current enrollment instead of the new total
getAvailableInfantSpots_currentCeiling(pType, capacity, infants, nonInfants) ==
    LET total == infants + nonInfants
        left == capacity - total
        room == getMaxInfantsAllowed(pType, total) - infants
    IN  IF left <= 0 \/ room <= 0 THEN 0
        ELSE IF room <= left THEN room ELSE left

\* every seat left offered to an infant
getAvailableInfantSpots_seatsLeft(pType, capacity, infants, nonInfants) ==
    LET totalSpotsLeft == capacity - (infants + nonInfants)
    IN  IF totalSpotsLeft <= 0 THEN 0 ELSE totalSpotsLeft

getAvailableInfantSpots(pType, capacity, infants, nonInfants) ==
    LET total == infants + nonInfants
        totalSpotsLeft == capacity - total
    IN  IF totalSpotsLeft <= 0 THEN 0
        ELSE InfantSpotsLoop(pType, totalSpotsLeft, infants, total, 1, 0)

----------------------------------------------------------------------------
(* utils/ageGroups.ts *)

InfantMaxAgeMonths == 24
NonInfantMaxAgeMonths == 240

DEFAULT_AGE_GROUPS ==
    << [id |-> "infant", minAgeMonths |-> 0, maxAgeMonths |-> InfantMaxAgeMonths],
       [id |-> "non_infant", minAgeMonths |-> InfantMaxAgeMonths,
        maxAgeMonths |-> NonInfantMaxAgeMonths] >>

\* the day-of-month correction applied after the birthday instead of before it
getAgeInMonths_inverted(dob, asOfDate) ==
    LET birth == NewDate(dob)
        totalMonths == (asOfDate.y - birth.y) * 12 + (asOfDate.m - birth.m)
    IN  IF asOfDate.d - birth.d > 0 THEN totalMonths - 1 ELSE totalMonths

\* dob is a date string, asOfDate a Date
getAgeInMonths(dob, asOfDate) ==
    LET birth == NewDate(dob)
        years == asOfDate.y - birth.y
        months == asOfDate.m - birth.m
        dayDiff == asOfDate.d - birth.d
        totalMonths == years * 12 + months
    IN  IF birth = InvalidDate \/ asOfDate = InvalidDate THEN NaN
        ELSE IF dayDiff < 0 THEN totalMonths - 1 ELSE totalMonths

\* the loop over DEFAULT_AGE_GROUPS from index i on
RECURSIVE AgeGroupFrom(_, _)
AgeGroupFrom(months, i) ==
    IF i > Len(DEFAULT_AGE_GROUPS) THEN Null
    ELSE IF /\ months >= DEFAULT_AGE_GROUPS[i].minAgeMonths
            /\ months < DEFAULT_AGE_GROUPS[i].maxAgeMonths
         THEN DEFAULT_AGE_GROUPS[i].id
         ELSE AgeGroupFrom(months, i + 1)

\* a group's upper bound taken as inclusive
getAgeGroup_inclusive(dob, asOfDate) ==
    LET months == getAgeInMonths(dob, asOfDate)
    IN  IF months >= 0 /\ months <= InfantMaxAgeMonths THEN "infant"
        ELSE IF months > InfantMaxAgeMonths /\ months <= NonInfantMaxAgeMonths
             THEN "non_infant"
             ELSE Null

getAgeGroup(dob, asOfDate) == AgeGroupFrom(getAgeInMonths(dob, asOfDate), 1)

----------------------------------------------------------------------------
(* utils/compliance.ts: the evaluator *)

\* the counting loop of calculateComplianceStatus: the number of children of
\* roster[i..] that getAgeGroup puts in group
RECURSIVE CountAgeGroup(_, _, _, _)
CountAgeGroup(roster, asOf, group, i) ==
    IF i > Len(roster) THEN 0
    ELSE (IF getAgeGroup(roster[i].dateOfBirth, asOf) = group THEN 1 ELSE 0)
         + CountAgeGroup(roster, asOf, group, i + 1)

\* messages: <<text, figures...>> for `...${n}...` templates
OverCapacity(total, maxTotal) == <<"Over capacity", total, maxTotal>>
InfantRatioViolation(infants, maxAllowed, total) ==
    <<"Infant ratio violation", infants, maxAllowed, total>>

\* the status record built from the two counts
StatusOf(infantCount, nonInfantCount, totalChildren, maxInfantsAllowed, pType, maxTotalAllowed) ==
    LET errors ==
            (IF totalChildren > maxTotalAllowed
             THEN <<OverCapacity(totalChildren, maxTotalAllowed)>> ELSE <<>>)
            \o (IF infantCount > maxInfantsAllowed
                THEN <<InfantRatioViolation(infantCount, maxInfantsAllowed,
                                            totalChildren)>>
                ELSE <<>>)
        warnings ==
            (IF totalChildren = maxTotalAllowed THEN <<"At full capacity">>
             ELSE IF totalChildren >= maxTotalAllowed - 1
                  THEN <<"Near full capacity">> ELSE <<>>)
            \o (IF infantCount = maxInfantsAllowed /\ infantCount > 0
                THEN <<"At maximum infant capacity">> ELSE <<>>)
            \o (IF pType = "small_family" /\ totalChildren > 6
                THEN <<"7-8 children requires: 1 child in K-12 + 1 child age 6+">>
                ELSE <<>>)
            \o (IF pType = "large_family" /\ totalChildren > 12
                THEN <<"13-14 children requires: 1 child in K-12 + 1 child age 6+">>
                ELSE <<>>)
    IN  [isCompliant |-> errors = <<>>,
         totalChildren |-> totalChildren,
         infantCount |-> infantCount,
         nonInfantCount |-> nonInfantCount,
         maxInfantsAllowed |-> maxInfantsAllowed,
         maxTotalAllowed |-> maxTotalAllowed,
         infantSpotsAvailable |->
             getAvailableInfantSpots(pType, maxTotalAllowed, infantCount,
                                     nonInfantCount),
         totalSpotsAvailable |->
             IF maxTotalAllowed - totalChildren > 0
             THEN maxTotalAllowed - totalChildren ELSE 0,
         warnings |-> warnings,
         errors |-> errors]

\* the infant ceiling looked up at the licensed capacity
calculateComplianceStatus_capacityCeiling(roster, pType, capacity) ==
    LET infantCount == CountAgeGroup(roster, today, "infant", 1)
        nonInfantCount == CountAgeGroup(roster, today, "non_infant", 1)
    IN  StatusOf(infantCount, nonInfantCount, infantCount + nonInfantCount,
                 getMaxInfantsAllowed(pType, capacity), pType, capacity)

\* every roster entry counted in totalChildren, aged out or not
calculateComplianceStatus_countAll(roster, pType, capacity) ==
    LET infantCount == CountAgeGroup(roster, today, "infant", 1)
        nonInfantCount == CountAgeGroup(roster, today, "non_infant", 1)
    IN  StatusOf(infantCount, nonInfantCount, Len(roster),
                 getMaxInfantsAllowed(pType, Len(roster)), pType, capacity)

\* the infant check made against the licensed capacity only
calculateComplianceStatus_noRatio(roster, pType, capacity) ==
    LET infantCount == CountAgeGroup(roster, today, "infant", 1)
        nonInfantCount == CountAgeGroup(roster, today, "non_infant", 1)
        totalChildren == infantCount + nonInfantCount
        real == StatusOf(infantCount, nonInfantCount, totalChildren,
                         getMaxInfantsAllowed(pType, totalChildren), pType, capacity)
        errors == IF totalChildren > capacity
                  THEN <<OverCapacity(totalChildren, capacity)>> ELSE <<>>
    IN  [real EXCEPT !.errors = errors, !.isCompliant = (errors = <<>>)]

\* totalSpotsAvailable without the Math.max(0, ...)
calculateComplianceStatus_signedSpots(roster, pType, capacity) ==
    LET infantCount == CountAgeGroup(roster, today, "infant", 1)
        nonInfantCount == CountAgeGroup(roster, today, "non_infant", 1)
        totalChildren == infantCount + nonInfantCount
        real == StatusOf(infantCount, nonInfantCount, totalChildren,
                         getMaxInfantsAllowed(pType, totalChildren), pType, capacity)
    IN  [real EXCEPT !.totalSpotsAvailable = capacity - totalChildren]

\* the counting loop left at the first child that is in neither group
calculateComplianceStatus_untilAgedOut(roster, pType, capacity) ==
    LET agedOut == {k \in DOMAIN roster :
                       getAgeGroup(roster[k].dateOfBirth, today) = Null}
        counted == IF agedOut = {} THEN roster
                   ELSE SubSeq(roster, 1,
                               (CHOOSE k \in agedOut : \A j \in agedOut : k <= j) - 1)
        infantCount == CountAgeGroup(counted, today, "infant", 1)
        nonInfantCount == CountAgeGroup(counted, today, "non_infant", 1)
        totalChildren == infantCount + nonInfantCount
    IN  StatusOf(infantCount, nonInfantCount, totalChildren,
                 getMaxInfantsAllowed(pType, totalChildren), pType, capacity)

\* capacityConfig is passed as its two fields; today is new Date()
calculateComplianceStatus(roster, pType, capacity) ==
    LET infantCount == CountAgeGroup(roster, today, "infant", 1)
        nonInfantCount == CountAgeGroup(roster, today, "non_infant", 1)
        totalChildren == infantCount + nonInfantCount
        maxInfantsAllowed == getMaxInfantsAllowed(pType, totalChildren)
    IN  StatusOf(infantCount, nonInfantCount, totalChildren, maxInfantsAllowed,
                 pType, capacity)

----------------------------------------------------------------------------
(* utils/projections.ts *)

\* the absent optional field (undefined or the empty string)
NoDate == [y |-> 0, m |-> 1, d |-> 1]

KindergartenAge == 5

getAgeTransitionDate(dob, targetAgeMonths) ==
    addMonths(NewDate(dob), targetAgeMonths)

getKindergartenStartDate(dob) ==
    LET birth == NewDate(dob)
        birthMonth == birth.m
        birthDay == birth.d
        kindergartenYear ==
            IF birthMonth > 8 \/ (birthMonth = 8 /\ birthDay >= 1)
            THEN birth.y + KindergartenAge + 1
            ELSE birth.y + KindergartenAge
    IN  [y |-> kindergartenYear, m |-> 8, d |-> 1, h |-> 0]

\* Date >= Date and Date <= Date compare the instants
WithinHorizon(D, projectionEnd) ==
    getTime(D) >= getTime(today) /\ getTime(D) <= getTime(projectionEnd)

Opening(date, group, reason, child) ==
    [date |-> date, ageGroup |-> group, reason |-> reason, childId |-> child.id]

\* the automatic steps of the loop body: kindergarten, aging out, infant
\* transition; the events pushed for child
AutomaticOpenings(child, projectionEnd) ==
    LET kStartDate == getKindergartenStartDate(child.dateOfBirth)
        maxAgeGroup == DEFAULT_AGE_GROUPS[Len(DEFAULT_AGE_GROUPS)]
        agingOutDate == getAgeTransitionDate(child.dateOfBirth,
                                             maxAgeGroup.maxAgeMonths)
        infantGroup == DEFAULT_AGE_GROUPS[1]
        transitionDate == getAgeTransitionDate(child.dateOfBirth,
                                               infantGroup.maxAgeMonths)
    IN  IF WithinHorizon(kStartDate, projectionEnd)
        THEN <<Opening(format(kStartDate), "non_infant", "kindergarten", child)>>
        ELSE IF WithinHorizon(agingOutDate, projectionEnd)
        THEN <<Opening(format(agingOutDate), "non_infant", "aging_out", child)>>
        ELSE IF /\ WithinHorizon(transitionDate, projectionEnd)
                /\ getAgeGroup(child.dateOfBirth, today) = "infant"
        THEN <<Opening(format(transitionDate), "infant", "aging_into_next_group",
                       child)>>
        ELSE <<>>

\* the scheduled-departure step classifying the child as of today
ScheduledOpenings_asOfToday(child, projectionEnd) ==
    LET departureDate == NewDate(child.expectedDepartureDate)
        currentAgeGroup == getAgeGroup(child.dateOfBirth, today)
    IN  IF WithinHorizon(departureDate, projectionEnd) /\ currentAgeGroup # Null
        THEN <<Opening(child.expectedDepartureDate, currentAgeGroup,
                       "scheduled_departure", child)>>
        ELSE <<>>

\* the scheduled-departure step of the loop body: the events it pushes
ScheduledOpenings(child, projectionEnd) ==
    LET departureDate == NewDate(child.expectedDepartureDate)
        currentAgeGroup == getAgeGroup(child.dateOfBirth, departureDate)
    IN  IF WithinHorizon(departureDate, projectionEnd) /\ currentAgeGroup # Null
        THEN <<Opening(child.expectedDepartureDate, currentAgeGroup,
                       "scheduled_departure", child)>>
        ELSE <<>>

\* the loop body without the continue that ends the scheduled-departure step
ChildOpenings_fallThrough(child, projectionEnd) ==
    IF child.expectedDepartureDate # NoDate
    THEN ScheduledOpenings(child, projectionEnd)
         \o AutomaticOpenings(child, projectionEnd)
    ELSE AutomaticOpenings(child, projectionEnd)

\* the loop body with the continue inside the horizon test of the
\* scheduled-departure step
ChildOpenings_continueInside(child, projectionEnd) ==
    IF /\ child.expectedDepartureDate # NoDate
       /\ WithinHorizon(NewDate(child.expectedDepartureDate), projectionEnd)
    THEN ScheduledOpenings(child, projectionEnd)
    ELSE AutomaticOpenings(child, projectionEnd)

\* one iteration of the loop over children: the events pushed for child
ChildOpenings(child, projectionEnd) ==
    IF child.expectedDepartureDate # NoDate
    THEN ScheduledOpenings(child, projectionEnd)
    ELSE AutomaticOpenings(child, projectionEnd)

RECURSIVE CollectOpenings(_, _, _)
CollectOpenings(roster, projectionEnd, i) ==
    IF i > Len(roster) THEN <<>>
    ELSE ChildOpenings(roster[i], projectionEnd)
         \o CollectOpenings(roster, projectionEnd, i + 1)

\* the comparator of openings.sort
CompareOpenings(a, b) == getTime(NewDate(a.date)) - getTime(NewDate(b.date))

\* Array.prototype.sort is stable: e goes after the elements that do not
\* compare greater
RECURSIVE InsertOpening(_, _)
InsertOpening(e, sorted) ==
    IF sorted = <<>> THEN <<e>>
    ELSE IF CompareOpenings(sorted[1], e) <= 0
         THEN <<sorted[1]>> \o InsertOpening(e, Tail(sorted))
         ELSE <<e>> \o sorted

RECURSIVE SortOpenings(_)
SortOpenings(list) ==
    IF list = <<>> THEN <<>>
    ELSE InsertOpening(list[Len(list)], SortOpenings(SubSeq(list, 1, Len(list) - 1)))

\* the list returned in the order the events were pushed
calculateProjectedOpenings_unsorted(roster, months) ==
    CollectOpenings(roster, addMonths(today, months), 1)

\* today is new Date()
calculateProjectedOpenings(roster, months) ==
    SortOpenings(CollectOpenings(roster, addMonths(today, months), 1))

----------------------------------------------------------------------------
(* Values the variables hold in the specifications that do not use them *)

Epoch == [y |-> 2026, m |-> 2, d |-> 15, h |-> 12]
NoStatus == [isCompliant |-> TRUE, totalChildren |-> 0, infantCount |-> 0,
             nonInfantCount |-> 0, maxInfantsAllowed |-> 0, maxTotalAllowed |-> 0,
             infantSpotsAvailable |-> 0, totalSpotsAvailable |-> 0,
             warnings |-> <<>>, errors |-> <<>>]

IdleClock == tzOffset = 0 /\ today = Epoch
IdleRules ==
    /\ programType = "small_family" /\ totalCapacity = 0
    /\ currentInfants = 0 /\ currentNonInfants = 0
    /\ maxInfants = 0 /\ infantSpots = 0
NoStart == [y |-> 0, m |-> 0, d |-> 1, h |-> 0]
NoProposal == [infant_spots |-> 0, toddler_spots |-> 0, preschool_spots |-> 0,
               school_age_spots |-> 0]

IdleAge ==
    /\ dateOfBirth = NoDate /\ ageMonths = 0 /\ ageGroup = Null
    /\ kindergartenStart = NoStart
IdlePrograms == programs = <<>> /\ activeProgramId = Null /\ uuids = 0
IdleForm == formData = NoProposal /\ complianceWarning = Null
IdleRoster ==
    /\ children = <<>> /\ status = NoStatus
    /\ projectionMonths = 0 /\ openings = <<>>
    /\ proposal = NoProposal

----------------------------------------------------------------------------
(* Rule engine queries: getMaxInfantsAllowed and getAvailableInfantSpots    *)
(* applied to every program type, capacity and enrollment within the bounds *)

InitRules ==
    /\ IdlePrograms
    /\ IdleForm
    /\ IdleClock /\ IdleAge /\ IdleRoster
    /\ returned = {}
    /\ programType \in ProgramTypes
    /\ totalCapacity \in -1 .. MaxHeadCount
    /\ currentInfants \in 0 .. MaxCurrentInfants
    /\ currentNonInfants \in 0 .. MaxHeadCount
    /\ maxInfants = 0
    /\ infantSpots = 0

CallGetMaxInfantsAllowed ==
    /\ "getMaxInfantsAllowed" \notin returned
    /\ maxInfants' = getMaxInfantsAllowed(programType, currentInfants + currentNonInfants)
    /\ returned' = returned \cup {"getMaxInfantsAllowed"}
    /\ UNCHANGED <<programVars, formVars, tzOffset, today, programType, totalCapacity, currentInfants,
                   currentNonInfants, infantSpots, ageVars, rosterVars>>

CallGetAvailableInfantSpots ==
    /\ "getAvailableInfantSpots" \notin returned
    /\ infantSpots' = getAvailableInfantSpots(programType, totalCapacity,
                                              currentInfants, currentNonInfants)
    /\ returned' = returned \cup {"getAvailableInfantSpots"}
    /\ UNCHANGED <<programVars, formVars, tzOffset, today, programType, totalCapacity, currentInfants,
                   currentNonInfants, maxInfants, ageVars, rosterVars>>

NextRules == CallGetMaxInfantsAllowed \/ CallGetAvailableInfantSpots

SpecRules == InitRules /\ [][NextRules]_vars

\* C1: getMaxInfantsAllowed implements the regulatory table: small_family
\* gives 4 for a total of 1..4, 3 for 5..6 and 2 for 7..8; large_family gives
\* 4 for 1..12 and 3 for 13..14.
C1_RegulatoryTable ==
    "getMaxInfantsAllowed" \in returned =>
        LET n == currentInfants + currentNonInfants
        IN  /\ (programType = "small_family" /\ n \in 1..4) => maxInfants = 4
            /\ (programType = "small_family" /\ n \in 5..6) => maxInfants = 3
            /\ (programType = "small_family" /\ n \in 7..8) => maxInfants = 2
            /\ (programType = "large_family" /\ n \in 1..12) => maxInfants = 4
            /\ (programType = "large_family" /\ n \in 13..14) => maxInfants = 3

\* the query at a boundary of the table: the first head count of the 3-infant tier
C1_Witness ==
    /\ "getMaxInfantsAllowed" \in returned
    /\ programType = "large_family"
    /\ currentInfants + currentNonInfants = 13
    /\ maxInfants = 3

SetMax(S) == CHOOSE x \in S : \A z \in S : z <= x

\* C2: getAvailableInfantSpots returns the largest k in
\* 0..max(0, capacity - enrolled) with infants + k within the ceiling at the
\* head count enrolled + k (0 when no k >= 1 qualifies): stopping at the
\* first violating k loses nothing.
C2_LargestAdmissible ==
    "getAvailableInfantSpots" \in returned =>
        LET total == currentInfants + currentNonInfants
            range == IF totalCapacity - total > 0 THEN totalCapacity - total ELSE 0
            admissible == {k \in 1..range :
                             currentInfants + k
                                <= getMaxInfantsAllowed(programType, total + k)}
        IN  infantSpots = SetMax(admissible \cup {0})

\* the search stopped at a violation before it ran out of seats, after the
\* ceiling dropped on the way (small_family, 4 enrolled, none of them infants)
C2_Witness ==
    /\ "getAvailableInfantSpots" \in returned
    /\ infantSpots >= 1
    /\ infantSpots < totalCapacity - (currentInfants + currentNonInfants)
    /\ getMaxInfantsAllowed(programType, currentInfants + currentNonInfants)
         > getMaxInfantsAllowed(programType,
                                currentInfants + currentNonInfants + infantSpots)

\* C24: for each programType getMaxInfantsAllowed is non-increasing in
\* totalChildren: getMaxInfantsAllowed(type, m) <= getMaxInfantsAllowed(type,
\* n) for all 0 <= n <= m; hence once currentInfants + k exceeds the ceiling
\* for some k it exceeds it for every larger k.
C24_CeilingNonIncreasing ==
    "getMaxInfantsAllowed" \in returned =>
        LET total == currentInfants + currentNonInfants
            Exceeds(k) == currentInfants + k
                            > getMaxInfantsAllowed(programType, total + k)
        IN  /\ \A n \in 0..total :
                  maxInfants <= getMaxInfantsAllowed(programType, n)
            /\ \A k \in 0..MaxHeadCount : \A later \in k..MaxHeadCount :
                  Exceeds(k) => Exceeds(later)

\* the ceiling of seven children, below that of four; a third infant
\* exceeds it and so does every further one
C24_Witness ==
    /\ "getMaxInfantsAllowed" \in returned
    /\ programType = "small_family"
    /\ currentInfants = 2 /\ currentNonInfants = 5
    /\ maxInfants = 2
    /\ getMaxInfantsAllowed(programType, 4) = 4
    /\ currentInfants + 1 > getMaxInfantsAllowed(programType, 8)

----------------------------------------------------------------------------
(* The age classifier followed over time: a birth date is classified, then  *)
(* the clock advances day by day and the classification is re-evaluated     *)
(* (every caller passes new Date() as the as-of date).                      *)

\* birth years of the classified children: one twenty years back, one current
BirthYears == {2004, 2024}
\* births on every day of January..March of a leap year
BirthDates == {D \in [y : BirthYears, m : 1..3, d : 1..31] :
                  D.d <= DaysInMonth(D.y, D.m - 1)}

FirstClockDay == [y |-> 2024, m |-> 0, d |-> 1, h |-> 12]

InitAge ==
    /\ IdlePrograms
    /\ IdleForm
    /\ IdleRules /\ IdleRoster
    /\ tzOffset \in TimeZones
    /\ today = FirstClockDay
    /\ returned = {}
    /\ dateOfBirth \in BirthDates
    /\ ageMonths = 0
    /\ ageGroup = Null
    /\ kindergartenStart = NoStart

Classify ==
    /\ returned = {}
    /\ ageMonths' = getAgeInMonths(dateOfBirth, today)
    /\ ageGroup' = getAgeGroup(dateOfBirth, today)
    /\ returned' = {"getAgeInMonths", "getAgeGroup"}
    /\ UNCHANGED <<programVars, formVars, tzOffset, today, dateOfBirth, kindergartenStart, ruleVars,
                   rosterVars>>

AdvanceDay ==
    /\ returned # {}
    /\ NextDay(today).y <= LastClockYear
    /\ today' = NextDay(today)
    /\ ageMonths' = getAgeInMonths(dateOfBirth, today')
    /\ ageGroup' = getAgeGroup(dateOfBirth, today')
    /\ UNCHANGED <<programVars, formVars, tzOffset, returned, dateOfBirth, kindergartenStart, ruleVars,
                   rosterVars>>

NextAge == Classify \/ AdvanceDay

SpecAge == InitAge /\ [][NextAge]_vars

\* C6: getAgeGroup returns infant exactly for an age of 0..23 months,
\* non_infant exactly for 24..239 months and neither from 240 months on; a
\* child born exactly 24 months before the as-of date is non_infant.
C6_AgeGroupBoundaries ==
    "getAgeGroup" \in returned =>
        /\ ageGroup = "infant" <=> (0 <= ageMonths /\ ageMonths < 24)
        /\ ageGroup = "non_infant" <=> (24 <= ageMonths /\ ageMonths < 240)
        /\ ageMonths >= 240 => ageGroup = Null
        /\ ~(ageGroup = "infant" /\ ageGroup = "non_infant")
        /\ (/\ dateOfBirth.y = today.y - 2
            /\ dateOfBirth.m = today.m + 1
            /\ dateOfBirth.d = today.d) => ageGroup = "non_infant"

\* a child classified on the second anniversary of the birth date
C6_Witness ==
    /\ "getAgeGroup" \in returned
    /\ dateOfBirth = [y |-> 2024, m |-> 3, d |-> 15]
    /\ today.y = 2026 /\ today.m = 2 /\ today.d = 15
    /\ ageGroup = "non_infant"

\* C7: getAgeInMonths is the number of whole calendar months elapsed between
\* the birth date and the as-of date: 12 * (year difference) + (month
\* difference), minus 1 exactly when the as-of day of month is smaller than
\* the birth day of month.
C7_WholeCalendarMonths ==
    "getAgeInMonths" \in returned =>
        ageMonths = 12 * (today.y - dateOfBirth.y)
                       + ((today.m + 1) - dateOfBirth.m)
                       - (IF today.d < dateOfBirth.d THEN 1 ELSE 0)

\* C8: getAgeInMonths never decreases as the as-of date advances (day by
\* day, hence over any pair of dates d1 <= d2).
C8_AgeMonotonic ==
    [][("getAgeInMonths" \in returned /\ "getAgeInMonths" \in returned')
          => ageMonths' >= ageMonths]_vars

\* evaluated across the end of a leap February for a child born on January 31
C8_Witness ==
    /\ "getAgeInMonths" \in returned
    /\ dateOfBirth = [y |-> 2024, m |-> 1, d |-> 31]
    /\ today.y = 2024 /\ today.m = 2 /\ today.d = 1
    /\ ageMonths = 1

----------------------------------------------------------------------------
(* The compliance evaluator on a program: a roster and a capacity          *)
(* configuration are evaluated, then the provider edits a child's birth    *)
(* date (usePrograms.updateChild) or the capacity settings                  *)
(* (usePrograms.updateProgram) and the dashboard evaluates again.           *)

\* largest roster evaluated
MaxRoster == 14
\* most infants on a roster
MaxRosterInfants == 12

\* birth dates by their age on the day of Epoch: 14 months; 4 years; 20
\* years; one day short of 24 months
InfantDob == [y |-> 2025, m |-> 1, d |-> 10]
NonInfantDob == [y |-> 2021, m |-> 6, d |-> 1]
AgedOutDob == [y |-> 2006, m |-> 3, d |-> 1]
EdgeDob == [y |-> 2024, m |-> 3, d |-> 16]
RosterDobs == {InfantDob, NonInfantDob, AgedOutDob, EdgeDob}

Capacities == {0, 6, 8, 14}

NewChild(id, dob, departure) ==
    [id |-> id, dateOfBirth |-> dob, expectedDepartureDate |-> departure]

\* the roster of i infants, n non-infants, e children a day short of 24
\* months and a children past the upper bound, in that order, ids 1, 2, ...
BlockRoster(i, n, e, a) ==
    [k \in 1..(i + n + e + a) |->
        NewChild(k,
                 IF k <= i THEN InfantDob
                 ELSE IF k <= i + n THEN NonInfantDob
                 ELSE IF k <= i + n + e THEN EdgeDob
                 ELSE AgedOutDob,
                 NoDate)]

BlockRosters ==
    {BlockRoster(c[1], c[2], c[3], c[4]) :
        c \in {x \in (0..MaxRosterInfants) \X (0..MaxRoster) \X (0..1) \X (0..1) :
                  x[1] + x[2] + x[3] + x[4] <= MaxRoster}}

\* usePrograms.updateChild on the active program's children
updateChild(roster, childId, dob) ==
    [k \in DOMAIN roster |->
        IF roster[k].id = childId
        THEN [roster[k] EXCEPT !.dateOfBirth = dob]
        ELSE roster[k]]

InitCompliance ==
    /\ IdlePrograms
    /\ IdleForm
    /\ IdleAge
    /\ tzOffset \in TimeZones
    /\ today = Epoch
    /\ returned = {}
    /\ programType \in ProgramTypes
    /\ totalCapacity \in Capacities
    /\ currentInfants = 0 /\ currentNonInfants = 0
    /\ maxInfants = 0 /\ infantSpots = 0
    /\ children \in BlockRosters
    /\ status = NoStatus
    /\ projectionMonths = 0
    /\ openings = <<>>
    /\ proposal = NoProposal

Evaluate ==
    /\ returned = {}
    /\ status' = calculateComplianceStatus(children, programType, totalCapacity)
    /\ returned' = {"calculateComplianceStatus"}
    /\ UNCHANGED <<programVars, formVars, tzOffset, today, ruleVars, ageVars, children,
                   projectionMonths, openings, proposal>>

\* the corrections followed are those that leave the roster grouped by birth
\* date (a child at the edge of its group moves to the neighbouring group)
UpdateChild ==
    /\ "calculateComplianceStatus" \in returned
    /\ \E k \in DOMAIN children, dob \in RosterDobs :
          /\ dob # children[k].dateOfBirth
          /\ children' = updateChild(children, children[k].id, dob)
          /\ children' \in BlockRosters
    /\ status' = calculateComplianceStatus(children', programType, totalCapacity)
    /\ returned' = returned \cup {"updateChild"}
    /\ UNCHANGED <<programVars, formVars, tzOffset, today, ruleVars, ageVars, projectionMonths, openings,
                   proposal>>

UpdateProgram ==
    /\ "calculateComplianceStatus" \in returned
    /\ \E pType \in ProgramTypes, capacity \in Capacities :
          /\ <<pType, capacity>> # <<programType, totalCapacity>>
          /\ programType' = pType
          /\ totalCapacity' = capacity
    /\ status' = calculateComplianceStatus(children, programType', totalCapacity')
    /\ UNCHANGED <<programVars, formVars, tzOffset, today, returned, currentInfants, currentNonInfants,
                   maxInfants, infantSpots, ageVars, children, projectionMonths,
                   openings, proposal>>

NextCompliance == Evaluate \/ UpdateChild \/ UpdateProgram

SpecCompliance == InitCompliance /\ [][NextCompliance]_vars

Evaluated == "calculateComplianceStatus" \in returned

HasMessage(list, text) == \E k \in DOMAIN list : list[k][1] = text

\* C3: isCompliant is true exactly when errors is empty; the over-capacity
\* error is present exactly when totalChildren > maxTotalAllowed and the
\* infant-ratio error exactly when infantCount > maxInfantsAllowed, so more
\* infants than getMaxInfantsAllowed(programType, totalChildren) is
\* non-compliant even below the licensed capacity.
C3_ErrorsAndCompliance ==
    Evaluated =>
        /\ status.isCompliant <=> (status.errors = <<>>)
        /\ HasMessage(status.errors, "Over capacity")
              <=> (status.totalChildren > status.maxTotalAllowed)
        /\ HasMessage(status.errors, "Infant ratio violation")
              <=> (status.infantCount > status.maxInfantsAllowed)
        /\ status.infantCount
              > getMaxInfantsAllowed(programType, status.totalChildren)
              => ~status.isCompliant

\* large program, capacity 14, twelve infants: below capacity, not compliant
C3_Witness ==
    /\ Evaluated
    /\ programType = "large_family" /\ totalCapacity = 14
    /\ status.infantCount = 12 /\ status.totalChildren = 12
    /\ ~status.isCompliant
    /\ ~HasMessage(status.errors, "Over capacity")
    /\ HasMessage(status.errors, "Infant ratio violation")

InGroup(group) ==
    {k \in DOMAIN children : getAgeGroup(children[k].dateOfBirth, today) = group}

\* C4: each child is counted in at most one of infantCount and
\* nonInfantCount, a child classified to neither group is counted in none of
\* the three counts, infantCount + nonInfantCount <= totalChildren <= roster
\* length, and infantCount + nonInfantCount is the roster length when no
\* child is classified to neither group.
C4_Counts ==
    Evaluated =>
        /\ status.infantCount = Cardinality(InGroup("infant"))
        /\ status.nonInfantCount = Cardinality(InGroup("non_infant"))
        /\ status.totalChildren = Len(children) - Cardinality(InGroup(Null))
        /\ status.infantCount + status.nonInfantCount <= status.totalChildren
        /\ status.totalChildren <= Len(children)
        /\ InGroup(Null) = {}
              => status.infantCount + status.nonInfantCount = Len(children)

\* a roster with a child past the upper bound next to counted children
C4_Witness ==
    /\ Evaluated
    /\ InGroup(Null) # {}
    /\ status.infantCount >= 1 /\ status.nonInfantCount >= 1
    /\ status.totalChildren = Len(children) - 1

\* C5: maxInfantsAllowed depends only on (programType, totalChildren): an
\* edit of the roster or of the capacity that leaves both unchanged leaves
\* maxInfantsAllowed unchanged, whatever it does to the split between
\* infants and non-infants and to totalCapacity.
C5_CeilingDependsOnTotalOnly ==
    [][(/\ Evaluated /\ "calculateComplianceStatus" \in returned'
        /\ programType' = programType
        /\ status'.totalChildren = status.totalChildren)
          => status'.maxInfantsAllowed = status.maxInfantsAllowed]_vars

\* after an infant's birth date was changed to a non-infant's: seven
\* children as before, another split, the ceiling of seven
C5_Witness ==
    /\ "updateChild" \in returned
    /\ programType = "small_family"
    /\ Len(children) = 7 /\ status.totalChildren = 7
    /\ status.infantCount = 1 /\ status.nonInfantCount = 6
    /\ status.maxInfantsAllowed = 2

\* the evaluator called with what the interface's types admit but the
\* application never means: a birth date that is no date, a negative capacity

\* largest roster of the calls with malformed input
MaxUnvalidated == 3
UnvalidatedDobs == {InfantDob, NonInfantDob, Unparsable}
UnvalidatedCapacities == {-1, 6, 8}
UnvalidatedRosters ==
    UNION {
        {[k \in 1..n |-> NewChild(k, c[k], NoDate)] : c \in [1..n -> UnvalidatedDobs]} :
        n \in 0..MaxUnvalidated}

InitUnvalidated ==
    /\ IdlePrograms
    /\ IdleForm
    /\ IdleAge
    /\ tzOffset \in TimeZones
    /\ today = Epoch
    /\ returned = {}
    /\ programType \in ProgramTypes
    /\ totalCapacity \in UnvalidatedCapacities
    /\ currentInfants = 0 /\ currentNonInfants = 0
    /\ maxInfants = 0 /\ infantSpots = 0
    /\ children \in UnvalidatedRosters
    /\ status = NoStatus
    /\ projectionMonths = 0
    /\ openings = <<>>
    /\ proposal = NoProposal

NextUnvalidated == Evaluate

SpecUnvalidated == InitUnvalidated /\ [][NextUnvalidated]_vars

\* C20: malformed input is rejected at the boundary: a call of
\* calculateComplianceStatus with a child whose dateOfBirth is unparsable, or
\* with a negative totalCapacity, fails instead of returning a
\* ComplianceStatus, and a malformed child is never silently left out of the
\* counts.
C20_MalformedInputRejected ==
    Evaluated =>
        /\ totalCapacity >= 0
        /\ \A k \in DOMAIN children : children[k].dateOfBirth # Unparsable

HasWarning(text) == \E k \in DOMAIN status.warnings : status.warnings[k] = text

\* C18: warnings contains 'At full capacity' exactly when totalChildren =
\* maxTotalAllowed and 'Near full capacity' exactly when totalChildren =
\* maxTotalAllowed - 1; never both, and neither when totalChildren is above
\* maxTotalAllowed or below maxTotalAllowed - 1.
C18_CapacityWarnings ==
    Evaluated =>
        /\ HasWarning("At full capacity")
              <=> status.totalChildren = status.maxTotalAllowed
        /\ HasWarning("Near full capacity")
              <=> status.totalChildren = status.maxTotalAllowed - 1
        /\ ~(HasWarning("At full capacity") /\ HasWarning("Near full capacity"))
        /\ (\/ status.totalChildren > status.maxTotalAllowed
            \/ status.totalChildren < status.maxTotalAllowed - 1)
              => /\ ~HasWarning("At full capacity")
                 /\ ~HasWarning("Near full capacity")

\* C25: in every ComplianceStatus totalSpotsAvailable = max(0,
\* maxTotalAllowed - totalChildren) and 0 <= infantSpotsAvailable <=
\* totalSpotsAvailable; both are 0 whenever the program is at or over
\* capacity.
C25_SpotsAvailable ==
    Evaluated =>
        /\ status.totalSpotsAvailable
              = (IF status.maxTotalAllowed - status.totalChildren > 0
                 THEN status.maxTotalAllowed - status.totalChildren ELSE 0)
        /\ 0 <= status.infantSpotsAvailable
        /\ status.infantSpotsAvailable <= status.totalSpotsAvailable
        /\ status.totalChildren >= status.maxTotalAllowed
              => /\ status.totalSpotsAvailable = 0
                 /\ status.infantSpotsAvailable = 0

\* a program over its capacity, its infants below their ceiling
C25_Witness ==
    /\ Evaluated
    /\ status.maxTotalAllowed = 6 /\ status.totalChildren = 8
    /\ status.infantCount < status.maxInfantsAllowed
    /\ status.totalSpotsAvailable = 0 /\ status.infantSpotsAvailable = 0

\* C26: in every ComplianceStatus, infantCount >= maxInfantsAllowed implies
\* infantSpotsAvailable = 0: with the 'At maximum infant capacity' warning
\* or the infant-ratio error present, no further infant spot is reported.
C26_NoInfantSpotAtCeiling ==
    Evaluated =>
        /\ status.infantCount >= status.maxInfantsAllowed
              => status.infantSpotsAvailable = 0
        /\ (\/ HasWarning("At maximum infant capacity")
            \/ HasMessage(status.errors, "Infant ratio violation"))
              => status.infantSpotsAvailable = 0

\* seats left in a program whose infants are at their ceiling
C26_Witness ==
    /\ Evaluated
    /\ HasWarning("At maximum infant capacity")
    /\ status.infantCount = status.maxInfantsAllowed
    /\ status.totalSpotsAvailable > 0
    /\ status.infantSpotsAvailable = 0

----------------------------------------------------------------------------
(* The projection engine applied to rosters of children with and without a  *)
(* scheduled departure, over the horizons the dashboards ask for.           *)

\* largest roster projected
MaxProjected == 2

\* birth dates by what lies ahead of Epoch: second birthday in 3 months;
\* kindergarten in 6 months; twentieth birthday in 6 months; nothing in 12;
\* born on the kindergarten cutoff day, kindergarten in 6 months
TurnsTwoDob == [y |-> 2024, m |-> 6, d |-> 10]
KindergartenDob == [y |-> 2021, m |-> 5, d |-> 5]
TurnsTwentyDob == [y |-> 2006, m |-> 8, d |-> 20]
YoungInfantDob == [y |-> 2025, m |-> 9, d |-> 20]
CutoffDob == [y |-> 2020, m |-> 9, d |-> 1]
ProjectedDobs == {TurnsTwoDob, KindergartenDob, TurnsTwentyDob, YoungInfantDob,
                  CutoffDob}

\* none; in 2 months; in 15 months; the day after Epoch + 3 months; after
\* the twentieth birthday of TurnsTwentyDob, in 6 months
DayAfterThreeMonths == [y |-> 2026, m |-> 6, d |-> 16]
AfterTwentiethBirthday == [y |-> 2026, m |-> 9, d |-> 10]
Departures == {NoDate, [y |-> 2026, m |-> 5, d |-> 20], [y |-> 2027, m |-> 6, d |-> 1],
               DayAfterThreeMonths, AfterTwentiethBirthday}

\* the provider opens the dashboard at noon or in the evening
ProjectionClocks == {Epoch, [Epoch EXCEPT !.h = 20]}

\* RosterSummary asks for 6 months, the dashboard for 12, the overview for 3
Horizons == {3, 6, 12}

ProjectedRosters ==
    UNION {
        {[k \in 1..n |-> NewChild(k, c[k][1], c[k][2])] :
            c \in [1..n -> ProjectedDobs \X Departures]} :
        n \in 0..MaxProjected}

InitProjection ==
    /\ IdlePrograms
    /\ IdleForm
    /\ IdleRules /\ IdleAge
    /\ tzOffset \in TimeZones
    /\ today \in ProjectionClocks
    /\ returned = {}
    /\ children \in ProjectedRosters
    /\ status = NoStatus
    /\ projectionMonths = 0
    /\ openings = <<>>
    /\ proposal = NoProposal

Project ==
    /\ returned = {}
    /\ \E months \in Horizons :
          /\ projectionMonths' = months
          /\ openings' = calculateProjectedOpenings(children, months)
    /\ returned' = {"calculateProjectedOpenings"}
    /\ UNCHANGED <<programVars, formVars, tzOffset, today, ruleVars, ageVars, children, status, proposal>>

NextProjection == Project

SpecProjection == InitProjection /\ [][NextProjection]_vars

Projected == "calculateProjectedOpenings" \in returned

\* C9: the list returned by calculateProjectedOpenings holds at most one
\* event per childId (the roster's ids being distinct).
C9_OneEventPerChild ==
    Projected =>
        \A i, j \in DOMAIN openings :
            openings[i].childId = openings[j].childId => i = j

\* a child with a departure scheduled before its kindergarten start, both
\* within the horizon, gets its one event
C9_Witness ==
    /\ Projected
    /\ projectionMonths = 6
    /\ \E k \in DOMAIN children :
          /\ children[k].dateOfBirth = KindergartenDob
          /\ children[k].expectedDepartureDate = [y |-> 2026, m |-> 5, d |-> 20]
          /\ Cardinality({i \in DOMAIN openings :
                             openings[i].childId = children[k].id}) = 1

\* calendar order of two date strings
DateStringLeq(a, b) ==
    \/ a.y < b.y
    \/ a.y = b.y /\ a.m < b.m
    \/ a.y = b.y /\ a.m = b.m /\ a.d <= b.d

\* C10: the list returned by calculateProjectedOpenings is sorted ascending
\* by event date: date[i] <= date[j] for all positions i < j.
C10_SortedByDate ==
    Projected =>
        \A i, j \in DOMAIN openings :
            i < j => DateStringLeq(openings[i].date, openings[j].date)

\* the events of two children come out in the opposite order of the roster
C10_Witness ==
    /\ Projected
    /\ Len(openings) >= 2
    /\ openings[1].childId > openings[2].childId
    /\ openings[1].date # openings[2].date

\* the calendar day of now and of now + projectionMonths months
HorizonStartDay == format(today)
HorizonEndDay == format(addMonths(today, projectionMonths))

\* C11: every event returned by calculateProjectedOpenings(children,
\* projectionMonths) has a date d with now <= d <= now + projectionMonths
\* months, whatever its reason (read at the granularity of the calendar
\* day: d is not before the day of now and not after the day of now +
\* projectionMonths months).
C11_EventsWithinHorizon ==
    Projected =>
        \A i \in DOMAIN openings :
            /\ DateStringLeq(HorizonStartDay, openings[i].date)
            /\ DateStringLeq(openings[i].date, HorizonEndDay)

\* the events of the list that carry the id of the k-th child of the roster
EventsOf(k) == SelectSeq(openings, LAMBDA e : e.childId = children[k].id)

\* the child has a departure date whose instant lies in [now, now + horizon]
DepartureWithinHorizon(child) ==
    /\ child.expectedDepartureDate # NoDate
    /\ WithinHorizon(NewDate(child.expectedDepartureDate),
                     addMonths(today, projectionMonths))

\* the child's classification as of its departure date
GroupAtDeparture(child) ==
    getAgeGroup(child.dateOfBirth, NewDate(child.expectedDepartureDate))

\* C12 as stated: every child whose expectedDepartureDate is set and lies
\* within [now, now + horizon] gets exactly one event, with reason
\* scheduled_departure, the departure date and the classification as of the
\* departure date, and no other event.
C12_OneScheduledDepartureEvent ==
    Projected =>
        \A k \in DOMAIN children :
            DepartureWithinHorizon(children[k]) =>
                EventsOf(k) = <<Opening(children[k].expectedDepartureDate,
                                        GroupAtDeparture(children[k]),
                                        "scheduled_departure", children[k])>>

\* C12, amended: a child whose departure instant lies within [now, now +
\* horizon] gets exactly one event (scheduled_departure, the departure
\* date, the classification as of the departure date) when it classifies as
\* infant or non_infant as of the departure date, and no event at all when
\* it classifies as neither (aged out by then).
C12_ScheduledDepartureWhenClassified ==
    Projected =>
        \A k \in DOMAIN children :
            DepartureWithinHorizon(children[k]) =>
                IF GroupAtDeparture(children[k]) \in {"infant", "non_infant"}
                THEN EventsOf(k) = <<Opening(children[k].expectedDepartureDate,
                                             GroupAtDeparture(children[k]),
                                             "scheduled_departure", children[k])>>
                ELSE EventsOf(k) = <<>>

\* an infant of today leaving after its second birthday is announced as a
\* non-infant; a child leaving after its twentieth birthday is not announced
C12_Witness ==
    /\ Projected
    /\ \E k \in DOMAIN children :
          /\ children[k].dateOfBirth = TurnsTwoDob
          /\ children[k].expectedDepartureDate = AfterTwentiethBirthday
          /\ DepartureWithinHorizon(children[k])
          /\ getAgeGroup(children[k].dateOfBirth, today) = "infant"
          /\ Len(EventsOf(k)) = 1 /\ EventsOf(k)[1].ageGroup = "non_infant"
    /\ \E k \in DOMAIN children :
          /\ children[k].dateOfBirth = TurnsTwentyDob
          /\ children[k].expectedDepartureDate = AfterTwentiethBirthday
          /\ DepartureWithinHorizon(children[k])
          /\ EventsOf(k) = <<>>

\* what the automatic steps (kindergarten, aging out, infant transition)
\* yield for the child over the horizon asked for
AutomaticEvents(child) ==
    AutomaticOpenings(child, addMonths(today, projectionMonths))

\* C13 as stated: the automatic steps are skipped for a child only when its
\* expectedDepartureDate is set and within [now, now + horizon]; a child
\* whose expectedDepartureDate is set but outside the horizon gets the event
\* of the first automatic step whose date is within the horizon.
C13_AutomaticStepsAfterLateDeparture ==
    Projected =>
        \A k \in DOMAIN children :
            (/\ children[k].expectedDepartureDate # NoDate
             /\ ~DepartureWithinHorizon(children[k]))
                => EventsOf(k) = AutomaticEvents(children[k])

\* C13, amended: the automatic steps are skipped for every child whose
\* expectedDepartureDate is set, within the horizon or not: such a child
\* never gets a kindergarten, aging_out or aging_into_next_group event, and
\* gets no event at all when its departure date is outside the horizon.
C13_DepartureSetSkipsAutomaticSteps ==
    Projected =>
        \A k \in DOMAIN children :
            children[k].expectedDepartureDate # NoDate =>
                /\ \A i \in DOMAIN EventsOf(k) :
                      EventsOf(k)[i].reason = "scheduled_departure"
                /\ ~DepartureWithinHorizon(children[k]) => EventsOf(k) = <<>>

\* a child turning two within the horizon and leaving after it: no event
C13_Witness ==
    /\ Projected
    /\ \E k \in DOMAIN children :
          /\ children[k].dateOfBirth = TurnsTwoDob
          /\ children[k].expectedDepartureDate = [y |-> 2027, m |-> 6, d |-> 1]
          /\ ~DepartureWithinHorizon(children[k])
          /\ AutomaticEvents(children[k]) # <<>>
          /\ EventsOf(k) = <<>>

\* the calendar day lies between the day of now and the day of now + horizon
DayWithinHorizon(day) ==
    DateStringLeq(HorizonStartDay, day) /\ DateStringLeq(day, HorizonEndDay)

\* September 1 of birth year + 5 for a birth before September 1, of birth
\* year + 6 for a birth on or after it
KindergartenStartDay(dob) ==
    [y |-> dob.y + (IF dob.m < 9 THEN 5 ELSE 6), m |-> 9, d |-> 1]

\* the calendar day `months` months after the birth date (the last day of
\* the month when the month is shorter)
BirthDatePlusMonths(dob, months) ==
    LET total == (dob.m - 1) + months
        year == dob.y + (total \div 12)
        month == total % 12
        last == DaysInMonth(year, month)
    IN  [y |-> year, m |-> month + 1, d |-> IF dob.d < last THEN dob.d ELSE last]

\* reason and age group of the event the first applicable step announces
FirstApplicableStep(child) ==
    IF DayWithinHorizon(KindergartenStartDay(child.dateOfBirth))
    THEN <<[reason |-> "kindergarten", ageGroup |-> "non_infant"]>>
    ELSE IF DayWithinHorizon(BirthDatePlusMonths(child.dateOfBirth, 240))
    THEN <<[reason |-> "aging_out", ageGroup |-> "non_infant"]>>
    ELSE IF /\ DayWithinHorizon(BirthDatePlusMonths(child.dateOfBirth, 24))
            /\ getAgeGroup(child.dateOfBirth, today) = "infant"
    THEN <<[reason |-> "aging_into_next_group", ageGroup |-> "infant"]>>
    ELSE <<>>

\* C14: a child with no expectedDepartureDate gets the event of the first
\* applicable step and nothing else: kindergarten start within the horizon
\* (kindergarten, non_infant), else birth date + 240 months within the
\* horizon (aging_out, non_infant), else birth date + 24 months within the
\* horizon and infant as of now (aging_into_next_group, infant), else no
\* event.
C14_FirstApplicableStep ==
    Projected =>
        \A k \in DOMAIN children :
            children[k].expectedDepartureDate = NoDate =>
                [i \in DOMAIN EventsOf(k) |->
                    [reason |-> EventsOf(k)[i].reason,
                     ageGroup |-> EventsOf(k)[i].ageGroup]]
                  = FirstApplicableStep(children[k])

----------------------------------------------------------------------------
(* The kindergarten rule applied to every birth date of a year *)

\* births on every day of a leap year
CutoffBirthDates == {D \in [y : {2020}, m : 1..12, d : 1..31] :
                        D.d <= DaysInMonth(D.y, D.m - 1)}

InitKindergarten ==
    /\ IdlePrograms
    /\ IdleForm
    /\ IdleRules /\ IdleRoster
    /\ tzOffset \in TimeZones
    /\ today = Epoch
    /\ returned = {}
    /\ dateOfBirth \in CutoffBirthDates
    /\ ageMonths = 0
    /\ ageGroup = Null
    /\ kindergartenStart = NoStart

CallGetKindergartenStartDate ==
    /\ returned = {}
    /\ kindergartenStart' = getKindergartenStartDate(dateOfBirth)
    /\ returned' = {"getKindergartenStartDate"}
    /\ UNCHANGED <<programVars, formVars, tzOffset, today, dateOfBirth, ageMonths, ageGroup, ruleVars,
                   rosterVars>>

NextKindergarten == CallGetKindergartenStartDate

SpecKindergarten == InitKindergarten /\ [][NextKindergarten]_vars

\* C15: the kindergarten start date of a child is September 1 of (birth
\* year + 5) when the birth date is before September 1 of its year and
\* September 1 of (birth year + 6) when it is on or after September 1, for
\* every birth date given as a calendar date: 2020-09-01 -> 2026-09-01,
\* 2020-08-31 -> 2025-09-01.
C15_KindergartenCutoff ==
    "getKindergartenStartDate" \in returned =>
        /\ format(kindergartenStart) = KindergartenStartDay(dateOfBirth)
        /\ dateOfBirth = [y |-> 2020, m |-> 9, d |-> 1]
              => format(kindergartenStart) = [y |-> 2026, m |-> 9, d |-> 1]
        /\ dateOfBirth = [y |-> 2020, m |-> 8, d |-> 31]
              => format(kindergartenStart) = [y |-> 2025, m |-> 9, d |-> 1]

----------------------------------------------------------------------------
(* The auto-fill allocator of the roster summary                            *)
(* (components/registry/RosterSummary.tsx): the proposal handed to the      *)
(* vacancy form when the provider presses "auto-fill".                      *)

Max2(a, b) == IF a >= b THEN a ELSE b
Min2(a, b) == IF a <= b THEN a ELSE b

\* RosterSummary's own getAgeInMonths: year and month difference only
RosterSummary_getAgeInMonths(dob) ==
    LET birth == NewDate(dob)
    IN  (today.y - birth.y) * 12 + (today.m - birth.m)

getDetailedAgeGroup(dob) ==
    LET months == RosterSummary_getAgeInMonths(dob)
    IN  IF months < 24 THEN "infant"
        ELSE IF months < 36 THEN "toddler"
        ELSE IF months < 72 THEN "preschool"
        ELSE "school_age"

ageCounts(roster) ==
    [g \in {"infant", "toddler", "preschool", "school_age"} |->
        Cardinality({k \in DOMAIN roster :
                        getDetailedAgeGroup(roster[k].dateOfBirth) = g})]

\* const totalAvailable = Math.max(0, totalCapacity - totalEnrolled)
totalAvailableOf(roster, capacity) == Max2(0, capacity - Len(roster))

\* the split of the spots left after the infants with the extras going to
\* preschool first
SplitRemaining_preschoolFirst(available, infantSpotsAvailable) ==
    LET remainingSpots == Max2(0, available - infantSpotsAvailable)
        spotsPerGroup == remainingSpots \div 3
        extraSpots == remainingSpots % 3
    IN  [infant_spots |-> infantSpotsAvailable,
         toddler_spots |-> spotsPerGroup + (IF extraSpots >= 2 THEN 1 ELSE 0),
         preschool_spots |-> spotsPerGroup + (IF extraSpots >= 1 THEN 1 ELSE 0),
         school_age_spots |-> spotsPerGroup]

\* the split of the spots left after the infants that drops the extras
SplitRemaining_noExtras(available, infantSpotsAvailable) ==
    LET remainingSpots == Max2(0, available - infantSpotsAvailable)
        spotsPerGroup == remainingSpots \div 3
    IN  [infant_spots |-> infantSpotsAvailable,
         toddler_spots |-> spotsPerGroup,
         preschool_spots |-> spotsPerGroup,
         school_age_spots |-> spotsPerGroup]

\* the split of the spots left after the infants and the object passed to
\* onAutoFill
SplitRemaining(available, infantSpotsAvailable) ==
    LET remainingSpots == Max2(0, available - infantSpotsAvailable)
        spotsPerGroup == remainingSpots \div 3
        extraSpots == remainingSpots % 3
    IN  [infant_spots |-> infantSpotsAvailable,
         toddler_spots |-> spotsPerGroup + (IF extraSpots >= 1 THEN 1 ELSE 0),
         preschool_spots |-> spotsPerGroup + (IF extraSpots >= 2 THEN 1 ELSE 0),
         school_age_spots |-> spotsPerGroup]

\* the allocator taking the infant ceiling at the current enrollment
handleAutoFill_currentCeiling(roster, pType, capacity) ==
    LET available == totalAvailableOf(roster, capacity)
        infantSpotsAvailable ==
            Max2(0, Min2(getMaxInfantsAllowed(pType, Len(roster))
                            - ageCounts(roster)["infant"], available))
    IN  SplitRemaining(available, infantSpotsAvailable)

\* the allocator offering every infant seat of the ceiling at capacity,
\* whatever the number of infants already enrolled
handleAutoFill_everyInfantSeat(roster, pType, capacity) ==
    LET available == totalAvailableOf(roster, capacity)
        atCapacityInfantLimit ==
            IF pType = "small_family"
            THEN (IF capacity <= 4 THEN 4 ELSE IF capacity <= 6 THEN 3 ELSE 2)
            ELSE (IF capacity <= 12 THEN 4 ELSE 3)
        infantSpotsAvailable == Max2(0, Min2(atCapacityInfantLimit, available))
    IN  SplitRemaining(available, infantSpotsAvailable)

handleAutoFill(roster, pType, capacity) ==
    LET available == totalAvailableOf(roster, capacity)
        atCapacityInfantLimit ==
            IF pType = "small_family"
            THEN (IF capacity <= 4 THEN 4 ELSE IF capacity <= 6 THEN 3 ELSE 2)
            ELSE (IF capacity <= 12 THEN 4 ELSE 3)
        currentInfantsEnrolled == ageCounts(roster)["infant"]
        infantSpotsAvailable ==
            Max2(0, Min2(atCapacityInfantLimit - currentInfantsEnrolled, available))
    IN  SplitRemaining(available, infantSpotsAvailable)

InitAutoFill ==
    /\ IdlePrograms
    /\ IdleForm
    /\ IdleAge
    /\ tzOffset \in TimeZones
    /\ today = Epoch
    /\ returned = {}
    /\ programType \in ProgramTypes
    /\ totalCapacity \in 0 .. MaxHeadCount
    /\ currentInfants = 0 /\ currentNonInfants = 0
    /\ maxInfants = 0 /\ infantSpots = 0
    /\ children \in BlockRosters
    /\ status = NoStatus
    /\ projectionMonths = 0
    /\ openings = <<>>
    /\ proposal = NoProposal

\* the button is disabled while totalAvailable is 0
AutoFill ==
    /\ returned = {}
    /\ totalAvailableOf(children, totalCapacity) # 0
    /\ proposal' = handleAutoFill(children, programType, totalCapacity)
    /\ returned' = {"handleAutoFill"}
    /\ UNCHANGED <<programVars, formVars, tzOffset, today, ruleVars, ageVars, children, status,
                   projectionMonths, openings>>

NextAutoFill == AutoFill

SpecAutoFill == InitAutoFill /\ [][NextAutoFill]_vars

AutoFilled == "handleAutoFill" \in returned

\* C16: the allocator proposes infant_spots = max(0, min(ceilingAtCapacity
\* - currentInfants, totalAvailable)) with totalAvailable = max(0,
\* totalCapacity - totalEnrolled) and ceilingAtCapacity =
\* getMaxInfantsAllowed(programType, totalCapacity), the ceiling at full
\* capacity and not at the current enrollment, for every program type and
\* every totalCapacity >= 1.
C16_InfantSpotsProposed ==
    (AutoFilled /\ totalCapacity >= 1) =>
        LET totalEnrolled == Len(children)
            available == Max2(0, totalCapacity - totalEnrolled)
            ceilingAtCapacity == getMaxInfantsAllowed(programType, totalCapacity)
            enrolledInfants == ageCounts(children)["infant"]
        IN  proposal.infant_spots
              = Max2(0, Min2(ceilingAtCapacity - enrolledInfants, available))

\* a small program of capacity 8 with one infant among four children: one
\* infant spot, where the ceiling of four children would leave three
C16_Witness ==
    /\ AutoFilled
    /\ programType = "small_family" /\ totalCapacity = 8
    /\ Len(children) = 4 /\ ageCounts(children)["infant"] = 1
    /\ proposal.infant_spots = 1

\* C17: with remaining = max(0, totalAvailable - infant_spots), base =
\* remaining div 3 and extra = remaining mod 3, the allocator proposes
\* toddler_spots = base + (1 if extra >= 1), preschool_spots = base + (1 if
\* extra >= 2) and school_age_spots = base; a small program of capacity 8
\* with an empty roster gets 2, 2, 2, 2.
C17_RemainingSplitInThree ==
    AutoFilled =>
        LET remaining == Max2(0, Max2(0, totalCapacity - Len(children))
                                    - proposal.infant_spots)
            base == remaining \div 3
            extra == remaining % 3
        IN  /\ proposal.toddler_spots = base + (IF extra >= 1 THEN 1 ELSE 0)
            /\ proposal.preschool_spots = base + (IF extra >= 2 THEN 1 ELSE 0)
            /\ proposal.school_age_spots = base
            /\ (/\ programType = "small_family" /\ totalCapacity = 8
                /\ children = <<>>)
                  => proposal = [infant_spots |-> 2, toddler_spots |-> 2,
                                 preschool_spots |-> 2, school_age_spots |-> 2]

\* seven spots left after the infants: the extra one goes to the toddlers
C17_Witness ==
    /\ AutoFilled
    /\ programType = "large_family" /\ totalCapacity = 14
    /\ Len(children) = 3
    /\ proposal = [infant_spots |-> 3, toddler_spots |-> 3,
                   preschool_spots |-> 3, school_age_spots |-> 2]

\* C22: the enrollment snapshot the allocator works from agrees with the
\* evaluator: the totalEnrolled and the infant count RosterSummary uses
\* equal totalChildren and infantCount of calculateComplianceStatus on the
\* same roster at the same instant (aged-out children excluded, a child
\* whose as-of day of month is before its birth day of month not counted one
\* month older).
C22_SnapshotAgreesWithEvaluator ==
    AutoFilled =>
        LET evaluated == calculateComplianceStatus(children, programType,
                                                   totalCapacity)
        IN  /\ Len(children) = evaluated.totalChildren
            /\ ageCounts(children)["infant"] = evaluated.infantCount

\* C27: every auto-fill proposal is a partition of the open seats: the four
\* proposed numbers are each >= 0, they add up to max(0, totalCapacity -
\* totalEnrolled), toddler_spots >= preschool_spots >= school_age_spots and
\* toddler_spots - school_age_spots <= 1.
C27_ProposalPartitionsOpenSeats ==
    AutoFilled =>
        /\ proposal.infant_spots >= 0 /\ proposal.toddler_spots >= 0
        /\ proposal.preschool_spots >= 0 /\ proposal.school_age_spots >= 0
        /\ proposal.infant_spots + proposal.toddler_spots
              + proposal.preschool_spots + proposal.school_age_spots
              = Max2(0, totalCapacity - Len(children))
        /\ proposal.toddler_spots >= proposal.preschool_spots
        /\ proposal.preschool_spots >= proposal.school_age_spots
        /\ proposal.toddler_spots - proposal.school_age_spots <= 1

\* eight open seats and the infants at their ceiling: none for infants,
\* the two extra seats to toddlers and preschool
C27_Witness ==
    /\ AutoFilled
    /\ totalCapacity - Len(children) = 8
    /\ proposal = [infant_spots |-> 0, toddler_spots |-> 3,
                   preschool_spots |-> 3, school_age_spots |-> 2]

\* C28: the allocator never proposes more infant seats than the rule engine
\* allows to be added: with i infants and n non-infants enrolled, the
\* proposed infant_spots <= getAvailableInfantSpots(programType,
\* totalCapacity, i, n), so enrolling the proposed infants creates no
\* infant-ratio violation that was not already present.
C28_ProposalWithinRuleEngine ==
    AutoFilled =>
        LET infants == CountAgeGroup(children, today, "infant", 1)
            nonInfants == CountAgeGroup(children, today, "non_infant", 1)
        IN  proposal.infant_spots
              <= getAvailableInfantSpots(programType, totalCapacity, infants,
                                         nonInfants)

----------------------------------------------------------------------------
(* The provider dashboard: pressing "auto-fill" in RosterSummary loads the  *)
(* proposal into VacancyForm, which is rendered with the enrollment that    *)
(* RegistryApp counts from the same roster.                                 *)

\* RegistryApp's currentEnrollment prop: every child of the roster, and as
\* infants the children whose year and month difference is under 24
currentEnrollment(roster) ==
    [total |-> Len(roster),
     infants |-> Cardinality({k \in DOMAIN roster :
                     LET birth == NewDate(roster[k].dateOfBirth)
                         months == (today.y - birth.y) * 12
                                      + (today.m - birth.m)
                     IN  months < 24})]

\* const maxCapacity = programType === 'small_family' ? 8 : 14
maxCapacity(pType) == IF pType = "small_family" THEN 8 ELSE 14

\* VacancyForm's compliance message for the form data: its type, or Null
complianceWarningOf(data, pType, enrollment) ==
    LET totalSpots == data.infant_spots + data.toddler_spots
                         + data.preschool_spots + data.school_age_spots
        availableSpots == maxCapacity(pType) - enrollment.total
        maxInfantsAllowed == getMaxInfantsAllowed(pType, enrollment.total)
        infantSpotsAvailable ==
            Max2(0, maxInfantsAllowed - enrollment.infants)
    IN  IF totalSpots > availableSpots THEN "error"
        ELSE IF data.infant_spots > infantSpotsAvailable THEN "warning"
        ELSE Null

\* the click on "auto-fill" on the dashboard: RosterSummary's handleAutoFill
\* calls RegistryApp's handleAutoFill, which stores the four numbers as
\* vacancyData; VacancyForm copies its initialData into formData and renders
AutoFillVacancyForm ==
    /\ returned = {}
    /\ totalAvailableOf(children, totalCapacity) # 0
    /\ proposal' = handleAutoFill(children, programType, totalCapacity)
    /\ formData' = [infant_spots |-> proposal'.infant_spots,
                    toddler_spots |-> proposal'.toddler_spots,
                    preschool_spots |-> proposal'.preschool_spots,
                    school_age_spots |-> proposal'.school_age_spots]
    /\ complianceWarning' = complianceWarningOf(formData', programType,
                                                currentEnrollment(children))
    /\ returned' = {"handleAutoFill", "VacancyForm"}
    /\ UNCHANGED <<programVars, tzOffset, today, ruleVars, ageVars, children,
                   status, projectionMonths, openings>>

NextVacancyForm == AutoFillVacancyForm

SpecVacancyForm == InitAutoFill /\ [][NextVacancyForm]_vars

FormLoaded == "VacancyForm" \in returned

\* C30: when the licensed capacity is at most the tier maximum (8 small,
\* 14 large), the form loaded with the auto-fill proposal shows no compliance
\* message: the spots it reports (the whole proposal) are at most the tier
\* maximum minus the enrolled children, and its infant_spots are at most
\* max(0, getMaxInfantsAllowed(programType, enrolled) - infants), with
\* enrolled and infants the currentEnrollment RegistryApp passes
C30_ProposalAcceptedByForm ==
    (FormLoaded /\ totalCapacity <= maxCapacity(programType)) =>
        LET enrollment == currentEnrollment(children)
        IN  /\ formData = proposal
            /\ complianceWarning = Null
            /\ formData.infant_spots + formData.toddler_spots
                  + formData.preschool_spots + formData.school_age_spots
                  <= maxCapacity(programType) - enrollment.total
            /\ formData.infant_spots
                  <= Max2(0, getMaxInfantsAllowed(programType, enrollment.total)
                                - enrollment.infants)

\* a large family home licensed for 14 with infants enrolled is offered an
\* infant spot and spots of the other groups, and the form shows no message
C30_Witness ==
    /\ FormLoaded
    /\ programType = "large_family" /\ totalCapacity = 14
    /\ currentEnrollment(children).infants >= 1
    /\ formData.infant_spots >= 1
    /\ formData.school_age_spots >= 1
    /\ complianceWarning = Null

----------------------------------------------------------------------------
(* The evaluator applied to rosters in every order of their children *)

\* largest roster evaluated in every order
MaxShuffled == 3
ShuffledRosters ==
    UNION {
        {[k \in 1..n |-> NewChild(k, c[k], NoDate)] : c \in [1..n -> RosterDobs]} :
        n \in 0..MaxShuffled}

InitShuffled ==
    /\ IdlePrograms
    /\ IdleForm
    /\ IdleAge
    /\ tzOffset \in TimeZones
    /\ today = Epoch
    /\ returned = {}
    /\ programType \in ProgramTypes
    /\ totalCapacity \in {2, 8}
    /\ currentInfants = 0 /\ currentNonInfants = 0
    /\ maxInfants = 0 /\ infantSpots = 0
    /\ children \in ShuffledRosters
    /\ status = NoStatus
    /\ projectionMonths = 0
    /\ openings = <<>>
    /\ proposal = NoProposal

NextShuffled == Evaluate

SpecShuffled == InitShuffled /\ [][NextShuffled]_vars

\* the rosters holding the children of roster in another order
PermutationsOf(roster) ==
    {[k \in DOMAIN roster |-> roster[p[k]]] :
        p \in {f \in [DOMAIN roster -> DOMAIN roster] :
                  \A i, j \in DOMAIN roster : f[i] = f[j] => i = j}}

\* C21: the roster is an unordered set for the evaluator:
\* calculateComplianceStatus returns the same ComplianceStatus for every
\* permutation of the roster, whatever the CapacityConfig and the instant.
C21_OrderIrrelevant ==
    Evaluated =>
        \A shuffled \in PermutationsOf(children) :
            calculateComplianceStatus(shuffled, programType, totalCapacity) = status

\* a roster led by a child past the upper bound, with its six orders
C21_Witness ==
    /\ Evaluated
    /\ Len(children) = 3
    /\ children[1].dateOfBirth = AgedOutDob
    /\ children[2].dateOfBirth = InfantDob
    /\ children[3].dateOfBirth = NonInfantDob
    /\ status.totalChildren = 2
    /\ Cardinality(PermutationsOf(children)) = 6

----------------------------------------------------------------------------
(* The program store (hooks/usePrograms.ts): programs with their rosters,   *)
(* one of them active.  Each handler runs on the state of the last render;  *)
(* ids are taken from crypto.randomUUID, modelled by a counter.             *)

\* largest number of programs kept at a time
MaxPrograms == 2
\* number of ids crypto.randomUUID hands out
MaxUuids == 5

DEFAULT_PROGRAM ==
    [name |-> "My Program", programType |-> "small_family", totalCapacity |-> 8,
     children |-> <<>>]

\* programs.find(p => p.id === activeProgramId) || programs[0] || null: the
\* position of the active program, 0 for none
activeProgram(progs, activeId) ==
    IF \E k \in DOMAIN progs : progs[k].id = activeId
    THEN CHOOSE k \in DOMAIN progs :
            /\ progs[k].id = activeId
            /\ \A j \in DOMAIN progs : progs[j].id = activeId => k <= j
    ELSE IF progs # <<>> THEN 1 ELSE 0

createProgram(progs, pType, id) ==
    Append(progs, [id |-> id, name |-> DEFAULT_PROGRAM.name, programType |-> pType,
                   totalCapacity |-> DEFAULT_PROGRAM.totalCapacity,
                   children |-> <<>>])

deleteProgram(progs, programId) == SelectSeq(progs, LAMBDA q : q.id # programId)

\* prev.map(p => p.id === activeProgram.id ? {...p, children: f(p.children)} : p)
\* with newChildren the new children list of the active program
SetChildrenOfActive(progs, activeId, newChildren) ==
    LET active == progs[activeProgram(progs, activeId)]
    IN  [k \in DOMAIN progs |->
            IF progs[k].id = active.id
            THEN [progs[k] EXCEPT !.children = newChildren]
            ELSE progs[k]]

\* the new child appended to the roster of every program
addChild_everyProgram(progs, activeId, newChild) ==
    [k \in DOMAIN progs |->
        [progs[k] EXCEPT !.children = Append(progs[k].children, newChild)]]

addChild(progs, activeId, newChild) ==
    LET active == progs[activeProgram(progs, activeId)]
    IN  SetChildrenOfActive(progs, activeId, Append(active.children, newChild))

importChildren(progs, activeId, childrenWithIds) ==
    LET active == progs[activeProgram(progs, activeId)]
    IN  SetChildrenOfActive(progs, activeId, active.children \o childrenWithIds)

removeChild(progs, activeId, childId) ==
    LET active == progs[activeProgram(progs, activeId)]
    IN  SetChildrenOfActive(progs, activeId,
                            SelectSeq(active.children, LAMBDA c : c.id # childId))

ProgramIds == {programs[k].id : k \in DOMAIN programs}
ChildIds ==
    UNION {{programs[k].children[i].id : i \in DOMAIN programs[k].children} :
              k \in DOMAIN programs}
HasActive == activeProgram(programs, activeProgramId) # 0

InitPrograms ==
    /\ IdleClock /\ IdleRules /\ IdleAge /\ IdleRoster /\ IdleForm
    /\ returned = {}
    /\ programs = <<>>
    /\ activeProgramId = Null
    /\ uuids = 0

CreateProgram ==
    /\ Len(programs) < MaxPrograms /\ uuids < MaxUuids
    /\ \E pType \in ProgramTypes :
          programs' = createProgram(programs, pType, uuids + 1)
    /\ activeProgramId' = uuids + 1
    /\ uuids' = uuids + 1
    /\ returned' = {"createProgram"}
    /\ UNCHANGED <<formVars, tzOffset, today, ruleVars, ageVars, rosterVars>>

SwitchProgram ==
    /\ \E programId \in ProgramIds : activeProgramId' = programId
    /\ returned' = {"switchProgram"}
    /\ UNCHANGED <<formVars, tzOffset, today, ruleVars, ageVars, rosterVars, programs, uuids>>

DeleteProgram ==
    /\ \E programId \in ProgramIds :
          /\ programs' = deleteProgram(programs, programId)
          /\ activeProgramId' =
                IF activeProgramId = programId
                THEN (IF programs' # <<>> THEN programs'[1].id ELSE Null)
                ELSE activeProgramId
    /\ returned' = {"deleteProgram"}
    /\ UNCHANGED <<formVars, tzOffset, today, ruleVars, ageVars, rosterVars, uuids>>

AddChild ==
    /\ HasActive /\ uuids < MaxUuids
    /\ \E dob \in {InfantDob, NonInfantDob} :
          programs' = addChild(programs, activeProgramId,
                               NewChild(uuids + 1, dob, NoDate))
    /\ uuids' = uuids + 1
    /\ returned' = {"addChild"}
    /\ UNCHANGED <<formVars, tzOffset, today, ruleVars, ageVars, rosterVars, activeProgramId>>

\* a file of two children
ImportChildren ==
    /\ HasActive /\ uuids + 2 <= MaxUuids
    /\ programs' = importChildren(programs, activeProgramId,
                                  <<NewChild(uuids + 1, InfantDob, NoDate),
                                    NewChild(uuids + 2, NonInfantDob, NoDate)>>)
    /\ uuids' = uuids + 2
    /\ returned' = {"importChildren"}
    /\ UNCHANGED <<formVars, tzOffset, today, ruleVars, ageVars, rosterVars, activeProgramId>>

\* the child edited is any child of the store, of the active program or not
UpdateChildOfActive ==
    /\ HasActive
    /\ \E childId \in ChildIds, dob \in {InfantDob, NonInfantDob} :
          LET active == programs[activeProgram(programs, activeProgramId)]
          IN  programs' = SetChildrenOfActive(programs, activeProgramId,
                              updateChild(active.children, childId, dob))
    /\ returned' = {"updateChild"}
    /\ UNCHANGED <<formVars, tzOffset, today, ruleVars, ageVars, rosterVars, activeProgramId,
                   uuids>>

RemoveChild ==
    /\ HasActive
    /\ \E childId \in ChildIds :
          programs' = removeChild(programs, activeProgramId, childId)
    /\ returned' = {"removeChild"}
    /\ UNCHANGED <<formVars, tzOffset, today, ruleVars, ageVars, rosterVars, activeProgramId,
                   uuids>>

NextPrograms ==
    \/ CreateProgram \/ SwitchProgram \/ DeleteProgram
    \/ AddChild \/ ImportChildren \/ UpdateChildOfActive \/ RemoveChild

SpecPrograms == InitPrograms /\ [][NextPrograms]_vars

\* every child id of the store is held by one program, at one place
OwnedByOneProgram ==
    \A id \in ChildIds :
        Cardinality({pos \in {<<k, i>> : k \in DOMAIN programs, i \in 1..MaxUuids} :
                        /\ pos[2] \in DOMAIN programs[pos[1]].children
                        /\ programs[pos[1]].children[pos[2]].id = id}) = 1

ChildOperations == {"addChild", "importChildren", "updateChild", "removeChild"}

\* the step changed nothing but the children list of the program that was
\* active before it
OnlyActiveChildrenChanged ==
    LET active == activeProgram(programs, activeProgramId)
    IN  /\ Len(programs') = Len(programs)
        /\ \A k \in DOMAIN programs :
              IF k = active
              THEN programs'[k] = [programs[k] EXCEPT
                                      !.children = programs'[k].children]
              ELSE programs'[k] = programs[k]

\* C23: after any sequence of createProgram, switchProgram, deleteProgram,
\* addChild, importChildren, updateChild and removeChild (ids fresh), every
\* child belongs to exactly one program's children list, and each child
\* operation changes only the children list of the program active when it
\* is called: the other programs and the active program's name,
\* programType and totalCapacity are unchanged.
C23_ChildrenOwnedByActiveProgram ==
    [][/\ OwnedByOneProgram'
       /\ (returned' \cap ChildOperations # {}) => OnlyActiveChildrenChanged]_vars

\* a child added to the first program after the second got one
C23_Witness ==
    /\ returned = {"addChild"}
    /\ Len(programs) = 2
    /\ activeProgram(programs, activeProgramId) = 1
    /\ programs[1].children # <<>> /\ programs[2].children # <<>>
    /\ Len(programs[1].children) + Len(programs[2].children) = Cardinality(ChildIds)

----------------------------------------------------------------------------
(* The projection of one infant, for every birth date of the weeks around   *)
(* a leap day, asked for at the start of the year the child turns two.      *)

\* births from 2024-02-15 to 2024-03-15
LeapBirthDates == {D \in [y : {2024}, m : 2..3, d : 1..31] :
                      /\ D.d <= DaysInMonth(D.y, D.m - 1)
                      /\ (D.m = 2 => D.d >= 15) /\ (D.m = 3 => D.d <= 15)}

NewYearClock == [y |-> 2026, m |-> 0, d |-> 15, h |-> 12]

InitTransition ==
    /\ IdlePrograms
    /\ IdleForm
    /\ IdleRules /\ IdleAge
    /\ tzOffset \in TimeZones
    /\ today = NewYearClock
    /\ returned = {}
    /\ \E dob \in LeapBirthDates : children = <<NewChild(1, dob, NoDate)>>
    /\ status = NoStatus
    /\ projectionMonths = 0
    /\ openings = <<>>
    /\ proposal = NoProposal

NextTransition == Project

SpecTransition == InitTransition /\ [][NextTransition]_vars

\* the child an event is about
ChildOf(event) == children[CHOOSE k \in DOMAIN children : children[k].id = event.childId]

\* C29: the projected transition dates agree with the age classifier: for
\* every aging_into_next_group event, getAgeGroup(dateOfBirth, event date)
\* is non_infant (getAgeInMonths on that date is >= 24) and the child is
\* still infant on the day before, for every birth date, births on
\* February 29 included.
C29_TransitionAgreesWithClassifier ==
    Projected =>
        \A i \in DOMAIN openings :
            openings[i].reason = "aging_into_next_group" =>
                LET dob == ChildOf(openings[i]).dateOfBirth
                    eventDate == NewDate(openings[i].date)
                IN  /\ getAgeGroup(dob, eventDate) = "non_infant"
                    /\ getAgeInMonths(dob, eventDate) >= 24
                    /\ getAgeGroup(dob, PrevDay(eventDate)) = "infant"

====
